---- MODULE Spec2Model ----
(***************************************************************************)
(* Model of taxonomic_stats.py: read_data (load, schema check, row         *)
(* cleaning), calculate_summary_statistics (group by phylum, sum and       *)
(* mean), save_results, generate_bar_chart and main.                       *)
(*                                                                         *)
(* Numbers.  pandas keeps the count column as int64 or float64.  The       *)
(* widths are scaled down so that TLC can enumerate them: an int64 is an   *)
(* IntBits-bit two's complement integer and a float64 has MantBits         *)
(* significant bits (it is exact below 2^MantBits, and rounds integers to  *)
(* MantBits significant bits, ties to even, from there on).  Float values  *)
(* are held in hundredths, so 2.5 is 250.                                  *)
(***************************************************************************)
EXTENDS Integers, Sequences, FiniteSets, TLC

VARIABLES input, pc, data, summary, csv_file, png_file, exit_code, log, steps

vars == <<input, pc, data, summary, csv_file, png_file, exit_code, log, steps>>

(* ---------------------------------------------------------------- bounds *)

\* Longest input table (data rows).
MaxRows == 3
\* Width standing for int64.
IntBits == 6
\* Significant bits standing for float64's 53.
MantBits == 4

(* --------------------------------------------------------------- numbers *)

RECURSIVE Pow2(_)
Pow2(n) == IF n = 0 THEN 1 ELSE 2 * Pow2(n - 1)

IntMin == 0 - Pow2(IntBits - 1)

Abs(x) == IF x < 0 THEN 0 - x ELSE x
Sign(x) == IF x < 0 THEN 0 - 1 ELSE 1

\* int64 arithmetic wraps around silently.
WrapInt(x) == ((x - IntMin) % Pow2(IntBits)) + IntMin

\* Nearest integer to num/den (den > 0), ties to the even integer.
RoundHalfEven(num, den) ==
    LET a == Abs(num)
        q == a \div den
        r == a % den
        up == (2 * r > den) \/ (2 * r = den /\ q % 2 = 1)
    IN  Sign(num) * (IF up THEN q + 1 ELSE q)

\* Largest e with 2^e <= x, for x >= 1.
RECURSIVE Log2(_)
Log2(x) == IF x < 2 THEN 0 ELSE 1 + Log2(x \div 2)

\* The float64 nearest to h hundredths.
FloatRound(h) ==
    IF Abs(h) < 100 * Pow2(MantBits)
    THEN h
    ELSE LET ulp == Pow2(Log2(Abs(h) \div 100) - MantBits + 1)
         IN  RoundHalfEven(h, 100 * ulp) * ulp * 100

\* C cast of a finite float (in hundredths) to an integer: towards zero.
Trunc(h) == Sign(h) * (Abs(h) \div 100)

(* ----------------------------------------------------------------- cells *)

\* A missing species or phylum cell; read_csv reads it as NaN.
NA == ""

NaN == [kind |-> "nan", val |-> 0]
Inf == [kind |-> "inf", val |-> 0]
F64(h) == [kind |-> "f64", val |-> h]
I64(v) == [kind |-> "i64", val |-> v]

\* Raw text of a count cell.
EmptyCell == [kind |-> "empty", val |-> 0]
TextCell == [kind |-> "str_text", val |-> 0]
InfCell == [kind |-> "str_inf", val |-> 0]
IntCell(v) == [kind |-> "str_int", val |-> v]
DecCell(h) == [kind |-> "str_dec", val |-> h]

RequiredColumns == {"species", "phylum", "count"}

(* ---------------------------------------------------------------- inputs *)

Row(s, p, c) == [species |-> s, phylum |-> p, count |-> c]

\* 2^53 + 1 at the model's scale: an int64 that no float64 holds.
BigOdd == Pow2(MantBits) + 1
\* 2^62 at the model's scale: two of them overflow an int64 sum.
Large == Pow2(IntBits - 2)

CountCells ==
    {EmptyCell, TextCell, InfCell, DecCell(0 - 250)}
        \cup {IntCell(v) : v \in {0 - 3, 5, BigOdd, Large}}

RowPool ==
    {Row("SpeciesA", "Firmicutes", c) : c \in CountCells}
        \cup {Row("SpeciesB", "firmicutes", IntCell(v)) : v \in {0 - 3, 5, Large}}
        \cup {Row("SpeciesC", NA, IntCell(5)), Row(NA, "Firmicutes", TextCell)}

SmallPool ==
    {Row("SpeciesA", "Firmicutes", c) :
        c \in {EmptyCell, TextCell, InfCell, IntCell(5), DecCell(0 - 250)}}
        \cup {Row("SpeciesC", NA, IntCell(5))}

Tables(pool) == UNION {[1..n -> pool] : n \in 0..MaxRows}

OtherColumnSets ==
    {RequiredColumns \cup {"extra"}, {"species", "count"}, {"species", "phylum"},
     {"phylum", "count", "extra"}}

\* The table t as a file whose header is cols.
Restrict(t, cols) ==
    [i \in DOMAIN t |-> [c \in cols |-> IF c = "extra" THEN "x" ELSE t[i][c]]]

TableInput(source, cols, t) ==
    [source |-> source, exists |-> TRUE, parses |-> TRUE, columns |-> cols, rows |-> t]

NoTable(source, exists) ==
    [source |-> source, exists |-> exists, parses |-> FALSE, columns |-> {},
     rows |-> <<>>]

Inputs ==
    {TableInput("path", RequiredColumns, t) : t \in Tables(RowPool)}
        \cup {TableInput("stringio", cols, Restrict(t, cols)) :
                cols \in OtherColumnSets, t \in Tables(SmallPool)}
        \cup {NoTable("other", FALSE), NoTable("path", FALSE), NoTable("path", TRUE),
              NoTable("stringio", TRUE)}

(* -------------------------------------------------------------- read_csv *)

\* The dtype pandas infers for the count column from all of its cells.
InferDtype(cells) ==
    IF cells = <<>> \/ \E i \in DOMAIN cells : cells[i].kind = "str_text"
    THEN "object"
    ELSE IF \E i \in DOMAIN cells : cells[i].kind # "str_int"
         THEN "float64"
         ELSE "int64"

\* The text of a numeric cell as a float64.
ParseFloat(c) ==
    CASE c.kind = "str_int" -> F64(FloatRound(100 * c.val))
      [] c.kind = "str_dec" -> F64(FloatRound(c.val))
      [] c.kind = "str_inf" -> Inf
      [] OTHER -> NaN

\* One count cell under the column's dtype.
ParseCell(dtype, c) ==
    CASE c.kind = "empty" -> NaN
      [] dtype = "object" -> c
      [] dtype = "int64" -> I64(c.val)
      [] OTHER -> ParseFloat(c)

\* pd.read_csv on a table that has the three required columns.
ReadCsv(inp) ==
    LET rows == inp.rows
        dtype == InferDtype([i \in DOMAIN rows |-> rows[i].count])
    IN  [dtype |-> dtype,
         rows |-> [i \in DOMAIN rows |->
                    [index |-> i - 1, species |-> rows[i].species,
                     phylum |-> rows[i].phylum,
                     count |-> ParseCell(dtype, rows[i].count)]]]

(* ---------------------------------------------------------- row cleaning *)

\* df.dropna(subset=list(required_columns))
DropNaRequired(df) ==
    LET Full(r) == r.species # NA /\ r.phylum # NA /\ r.count.kind # "nan"
    IN  [df EXCEPT !.rows = SelectSeq(df.rows, Full)]

\* pd.to_numeric(df["count"], errors="coerce")
ToNumeric(df) ==
    IF df.dtype # "object"
    THEN df
    ELSE LET AllInt == \A i \in DOMAIN df.rows : df.rows[i].count.kind = "str_int"
             Conv(c) == IF AllInt THEN I64(c.val) ELSE ParseFloat(c)
         IN  [dtype |-> IF AllInt THEN "int64" ELSE "float64",
              rows |-> [i \in DOMAIN df.rows |->
                         [df.rows[i] EXCEPT !.count = Conv(df.rows[i].count)]]]

\* Mutant: the rows whose count failed coercion are not dropped.
DropNaCountKeepsAll(df) == df

\* df.dropna(subset=["count"])
DropNaCount(df) ==
    LET Num(r) == r.count.kind # "nan"
    IN  [df EXCEPT !.rows = SelectSeq(df.rows, Num)]

\* astype(int) raises on a non-finite value.
AsTypeIntRaises(df) == \E i \in DOMAIN df.rows : df.rows[i].count.kind \in {"inf", "nan"}

\* One count cast to int.
CastInt(c) == IF c.kind = "i64" THEN c.val ELSE Trunc(c.val)

\* df["count"].astype(int), on a column without non-finite values.
AsTypeInt(df) ==
    [i \in DOMAIN df.rows |-> [df.rows[i] EXCEPT !.count = CastInt(df.rows[i].count)]]

(* ------------------------------------------------------------- read_data *)

NoFrame == [returned |-> FALSE, rows |-> <<>>]
Frame(rows) == [returned |-> TRUE, rows |-> rows]

Fatal(msg, done) == [status |-> "exit", df |-> NoFrame, log |-> <<msg>>, steps |-> done]

\* Mutant: the schema check passes when any required column is present.
SchemaFailsIfNonePresent(columns) == RequiredColumns \cap columns = {}

\* not required_columns.issubset(df.columns)
SchemaFails(columns) == ~(RequiredColumns \subseteq columns)

read_data(inp) ==
    IF inp.source = "other"
    THEN Fatal("ERROR: Invalid input: file_path must be a string or StringIO object.", <<>>)
    ELSE IF inp.source = "path" /\ ~inp.exists
    THEN Fatal("ERROR: File not found", <<>>)
    ELSE IF ~inp.parses
    THEN Fatal("ERROR: Error while reading the file", <<>>)
    ELSE IF SchemaFails(inp.columns)
    THEN Fatal("ERROR: Invalid file format. Required columns", <<>>)
    ELSE IF ~(RequiredColumns \subseteq inp.columns)
    THEN \* dropna(subset=...) raises KeyError on a column that is not there
         Fatal("ERROR: Error while reading the file", <<"dropna">>)
    ELSE LET df1 == DropNaRequired(ReadCsv(inp))
             df2 == ToNumeric(df1)
             df3 == DropNaCount(df2)
         IN  IF AsTypeIntRaises(df3)
             THEN Fatal("ERROR: Error while reading the file",
                        <<"dropna", "to_numeric", "dropna_count", "astype_int">>)
             ELSE [status |-> "ok", df |-> Frame(AsTypeInt(df3)),
                   log |-> <<"INFO: Data successfully loaded and cleaned.">>,
                   steps |-> <<"dropna", "to_numeric", "dropna_count", "astype_int">>]

(* ------------------------------------------ calculate_summary_statistics *)

\* The phyla of the inputs in the order groupby sorts its keys.
PhylumOrder == <<"Firmicutes", "firmicutes">>

Group(rows, p) ==
    LET In(r) == r.phylum = p
    IN  SelectSeq(rows, In)

\* ("count", "sum"): an int64 accumulator.
RECURSIVE GroupSum(_)
GroupSum(rows) ==
    IF rows = <<>> THEN 0
    ELSE WrapInt(GroupSum(SubSeq(rows, 1, Len(rows) - 1)) + rows[Len(rows)].count)

\* The float64 sum that the mean divides: the counts are cast to float64 first.
RECURSIVE FloatSum(_)
FloatSum(rows) ==
    IF rows = <<>> THEN 0
    ELSE FloatRound(FloatSum(SubSeq(rows, 1, Len(rows) - 1))
                    + FloatRound(100 * rows[Len(rows)].count))

\* ("count", "mean"), then round(2): in hundredths.
GroupMeanRounded(rows) == FloatRound(RoundHalfEven(FloatSum(rows), Len(rows)))

SummaryRow(rows, p) ==
    [phylum |-> p, total_species_count |-> GroupSum(Group(rows, p)),
     average_species_count |-> GroupMeanRounded(Group(rows, p))]

\* Mutant: grouping zero rows is an error.
calculate_summary_statistics_empty_fails(df) ==
    LET Present(p) == \E i \in DOMAIN df.rows : df.rows[i].phylum = p
        keys == SelectSeq(PhylumOrder, Present)
    IN  IF df.rows = <<>>
        THEN [status |-> "exit", df |-> NoFrame,
              log |-> <<"ERROR: Error calculating summary statistics">>]
        ELSE [status |-> "ok",
              df |-> Frame([k \in DOMAIN keys |-> SummaryRow(df.rows, keys[k])]),
              log |-> <<"INFO: Summary statistics successfully calculated.">>]

calculate_summary_statistics(df) ==
    LET Present(p) == \E i \in DOMAIN df.rows : df.rows[i].phylum = p
        keys == SelectSeq(PhylumOrder, Present)
    IN  [status |-> "ok",
         df |-> Frame([k \in DOMAIN keys |-> SummaryRow(df.rows, keys[k])]),
         log |-> <<"INFO: Summary statistics successfully calculated.">>]

(* ------------------------------------------------------------------ sink *)

NoFile == [written |-> FALSE, content |-> <<>>]
File(content) == [written |-> TRUE, content |-> content]

\* df.to_csv(output_file, index=False): the header, then one line per entry.
ToCsv(df) ==
    <<<<"phylum", "total_species_count", "average_species_count">>>>
        \o [i \in DOMAIN df.rows |->
             <<df.rows[i].phylum, df.rows[i].total_species_count,
               df.rows[i].average_species_count>>]

\* plt.bar(df["phylum"], df["total_species_count"]): one bar per entry.
BarChart(df) ==
    [i \in DOMAIN df.rows |->
        [label |-> df.rows[i].phylum, height |-> df.rows[i].total_species_count]]

\* Mutant: a failed write is logged but the run goes on.
save_results_goes_on(df, ok) ==
    IF ok
    THEN [status |-> "ok", file |-> File(ToCsv(df)), log |-> <<"INFO: Results saved">>]
    ELSE [status |-> "ok", file |-> NoFile,
          log |-> <<"ERROR: Error saving results to file">>]

save_results(df, ok) ==
    IF ok
    THEN [status |-> "ok", file |-> File(ToCsv(df)), log |-> <<"INFO: Results saved">>]
    ELSE [status |-> "exit", file |-> NoFile,
          log |-> <<"ERROR: Error saving results to file">>]

generate_bar_chart(df, ok) ==
    IF ok
    THEN [status |-> "ok", file |-> File(BarChart(df)), log |-> <<"INFO: Bar chart saved">>]
    ELSE [status |-> "exit", file |-> NoFile,
          log |-> <<"ERROR: Error generating bar chart">>]

(* ------------------------------------------------------------------ main *)

\* Mutant: main goes on to the next stage whatever the status.
AfterAnyStatus(status, next) == next

\* Where main goes after a stage that ended with the given status.
After(status, next) == IF status = "ok" THEN next ELSE "exit"

Init ==
    /\ input \in Inputs
    /\ pc = "read_data"
    /\ data = NoFrame
    /\ summary = NoFrame
    /\ csv_file = NoFile
    /\ png_file = NoFile
    /\ exit_code = 0
    /\ log = <<>>
    /\ steps = <<>>

\* Step 1: data = read_data(input_file)
ReadData ==
    /\ pc = "read_data"
    /\ LET r == read_data(input)
       IN  /\ data' = r.df
           /\ log' = log \o r.log
           /\ steps' = r.steps
           /\ pc' = After(r.status, "calculate")
           /\ exit_code' = IF r.status = "ok" THEN exit_code ELSE 1
    /\ UNCHANGED <<input, summary, csv_file, png_file>>

\* Step 2: summary_stats = calculate_summary_statistics(data)
CalculateSummaryStatistics ==
    /\ pc = "calculate"
    /\ LET r == calculate_summary_statistics(data)
       IN  /\ summary' = r.df
           /\ log' = log \o r.log
           /\ pc' = After(r.status, "save")
           /\ exit_code' = IF r.status = "ok" THEN exit_code ELSE 1
    /\ UNCHANGED <<input, data, csv_file, png_file, steps>>

\* Step 3: save_results(summary_stats, output_csv); the write may fail.
SaveResults ==
    /\ pc = "save"
    /\ \E ok \in BOOLEAN :
         LET r == save_results(summary, ok)
         IN  /\ csv_file' = r.file
             /\ log' = log \o r.log
             /\ pc' = After(r.status, "plot")
             /\ exit_code' = IF r.status = "ok" THEN exit_code ELSE 1
    /\ UNCHANGED <<input, data, summary, png_file, steps>>

\* Step 4: generate_bar_chart(summary_stats, output_image); it may fail.
GenerateBarChart ==
    /\ pc = "plot"
    /\ \E ok \in BOOLEAN :
         LET r == generate_bar_chart(summary, ok)
         IN  /\ png_file' = r.file
             /\ log' = log \o r.log
             /\ pc' = After(r.status, "complete")
             /\ exit_code' = IF r.status = "ok" THEN exit_code ELSE 1
    /\ UNCHANGED <<input, data, summary, csv_file, steps>>

\* logging.info("Task completed successfully!"), and main returns.
Complete ==
    /\ pc = "complete"
    /\ pc' = "done"
    /\ log' = Append(log, "INFO: Task completed successfully!")
    /\ UNCHANGED <<input, data, summary, csv_file, png_file, exit_code, steps>>

Next ==
    \/ ReadData
    \/ CalculateSummaryStatistics
    \/ SaveResults
    \/ GenerateBarChart
    \/ Complete

Spec == Init /\ [][Next]_vars

(* ------------------------------------------------- notions of the claims *)

\* read_data has run on a table that has the three required columns.
LoadedTable ==
    /\ pc # "read_data"
    /\ input.parses
    /\ {"species", "phylum", "count"} \subseteq input.columns

\* A row that is missing a field, or whose count is not a number.
InvalidRow(r) ==
    r.species = NA \/ r.phylum = NA \/ r.count.kind \in {"empty", "str_text"}

ValidRow(r) == ~InvalidRow(r)

\* The integer a numeric count cell stands for, its fraction cut off.
ExactInt(c) ==
    CASE c.kind = "str_int" -> c.val
      [] c.kind = "str_dec" -> Trunc(c.val)
      [] OTHER -> 0

\* The input rows (by position) that are valid.
ValidPositions == {i \in DOMAIN input.rows : ValidRow(input.rows[i])}

\* The input positions of the rows of the cleaned table.
KeptPositions == {data.rows[j].index + 1 : j \in DOMAIN data.rows}

\* The input without its invalid rows.
ValidOnly(inp) == [inp EXCEPT !.rows = SelectSeq(inp.rows, ValidRow)]

RECURSIVE SumOf(_, _)
SumOf(f, S) ==
    IF S = {} THEN 0
    ELSE LET x == CHOOSE y \in S : TRUE IN f[x] + SumOf(f, S \ {x})

\* The exact sum of the counts of the observations of phylum p.
ExactTotal(p) ==
    SumOf([i \in DOMAIN data.rows |-> data.rows[i].count],
          {i \in DOMAIN data.rows : data.rows[i].phylum = p})

Last(s) == s[Len(s)]

(* ---------------------------------------------------------------- claims *)

\* C1: on a table with the required columns read_data returns, and every row
\* with non-null species and phylum and a numeric count is in the result with
\* its count cast to an integer (the fraction cut off).
C1_ValidRowsKept ==
    LoadedTable =>
        /\ data.returned
        /\ \A i \in ValidPositions :
             \E j \in DOMAIN data.rows :
                /\ data.rows[j].index = i - 1
                /\ data.rows[j].species = input.rows[i].species
                /\ data.rows[j].phylum = input.rows[i].phylum
                /\ data.rows[j].count = ExactInt(input.rows[i].count)

\* C2: a row that misses a field or whose count is not numeric is absent from
\* the result, and it never makes the load fatal: read_data returns exactly when
\* it returns on the input without the invalid rows, and then keeps every
\* valid row.
C2_InvalidRowsDropped ==
    LoadedTable =>
        /\ \A j \in DOMAIN data.rows : ValidRow(input.rows[data.rows[j].index + 1])
        /\ data.returned = read_data(ValidOnly(input)).df.returned
        /\ data.returned => KeptPositions = ValidPositions

C2_Witness ==
    /\ LoadedTable
    /\ data.returned
    /\ data.rows # <<>>
    /\ \E i \in DOMAIN input.rows : input.rows[i].count.kind = "str_text"
    /\ \E i \in DOMAIN input.rows : input.rows[i].phylum = NA

\* C3: an input that lacks one of species, phylum, count ends read_data with
\* exit code 1 before any cleaning step and without a table; a table that has
\* the three columns never fails the schema check, whatever else it has.
C3_SchemaCheck ==
    (pc # "read_data" /\ input.parses) =>
        IF {"species", "phylum", "count"} \subseteq input.columns
        THEN \A k \in DOMAIN log : log[k] # "ERROR: Invalid file format. Required columns"
        ELSE /\ pc = "exit"
             /\ exit_code = 1
             /\ ~data.returned
             /\ steps = <<>>
             /\ log = <<"ERROR: Invalid file format. Required columns">>

C3_Witness ==
    /\ pc = "exit"
    /\ input.parses
    /\ input.rows # <<>>
    /\ "species" \notin input.columns
    /\ "extra" \in input.columns

\* C4: the summary has exactly one entry per distinct phylum of the cleaned
\* table, each total is the sum of the counts of that phylum, and the totals
\* add up to the sum of all counts.
C4_GroupBySum ==
    summary.returned =>
        /\ {summary.rows[k].phylum : k \in DOMAIN summary.rows}
             = {data.rows[i].phylum : i \in DOMAIN data.rows}
        /\ \A k, l \in DOMAIN summary.rows :
             summary.rows[k].phylum = summary.rows[l].phylum => k = l
        /\ \A k \in DOMAIN summary.rows :
             summary.rows[k].total_species_count = ExactTotal(summary.rows[k].phylum)
        /\ SumOf([k \in DOMAIN summary.rows |-> summary.rows[k].total_species_count],
                 DOMAIN summary.rows)
             = SumOf([i \in DOMAIN data.rows |-> data.rows[i].count], DOMAIN data.rows)

\* C5: aggregating an empty cleaned table returns normally with an empty
\* summary.
C5_EmptySummary ==
    (data.returned /\ data.rows = <<>> /\ pc \notin {"read_data", "calculate"}) =>
        /\ summary.returned
        /\ summary.rows = <<>>
        /\ "ERROR: Error calculating summary statistics" \notin
             {log[k] : k \in DOMAIN log}

C5_Witness ==
    /\ summary.returned
    /\ summary.rows = <<>>
    /\ Len(input.rows) > 1
    /\ pc = "save"

\* C6: every entry of a summary has total_count >= 0.
C6_TotalNonNegative ==
    summary.returned =>
        \A k \in DOMAIN summary.rows : summary.rows[k].total_species_count >= 0

\* C7: an entry's average, a hundredths, is total_count / n rounded to two
\* decimals: |a * n - 100 * total_count| * 2 <= n, n the number of
\* observations of the phylum.
C7_AverageRounded ==
    summary.returned =>
        \A k \in DOMAIN summary.rows :
            LET e == summary.rows[k]
                n == Len(Group(data.rows, e.phylum))
            IN  Abs(e.average_species_count * n - 100 * e.total_species_count) * 2 <= n

\* The INFO lines of a run, in the order main's stages write them.
StageOrder ==
    <<"INFO: Data successfully loaded and cleaned.",
      "INFO: Summary statistics successfully calculated.",
      "INFO: Results saved", "INFO: Bar chart saved",
      "INFO: Task completed successfully!">>

IsError(msg) ==
    msg \notin {StageOrder[k] : k \in DOMAIN StageOrder}

\* C8: main runs load, aggregate, write table, render chart in this order, each
\* after the one before succeeded; a fatal condition ends the run at once with
\* exit code 1 and nothing runs after it; the run ends with exit code 0 only
\* if all four stages succeeded.
C8_StrictPipeline ==
    /\ \A k \in DOMAIN log :
         log[k] = StageOrder[k] \/ (k = Len(log) /\ IsError(log[k]))
    /\ (pc = "exit") = (log # <<>> /\ IsError(Last(log)))
    /\ (pc = "exit") = (exit_code = 1)
    /\ pc = "exit" => ~ENABLED Next
    /\ summary.returned => data.returned
    /\ csv_file.written => summary.returned
    /\ png_file.written => csv_file.written
    /\ pc = "done" =>
         /\ exit_code = 0
         /\ log = StageOrder
         /\ data.returned /\ summary.returned /\ csv_file.written /\ png_file.written

C8_Witness ==
    /\ pc = "exit"
    /\ csv_file.written
    /\ ~png_file.written
    /\ summary.rows # <<>>

\* C9 as stated: a failed table write does not keep the chart from being
\* rendered.
C9_ChartAfterFailedWrite ==
    (log # <<>> /\ Last(log) = "ERROR: Error saving results to file") =>
        ENABLED GenerateBarChart

\* C9 as amended: each output is a function of the summary alone and the table
\* write never depends on the chart, but the chart is rendered only after the
\* table was written: a failed table write ends the run with exit code 1 and
\* no chart.
C9_ChartOnlyAfterWrite ==
    /\ (log # <<>> /\ Last(log) = "ERROR: Error saving results to file") =>
         /\ pc = "exit" /\ exit_code = 1
         /\ ~csv_file.written /\ ~png_file.written
         /\ ~ENABLED GenerateBarChart
    /\ (pc = "plot" \/ png_file.written) => csv_file.written
    /\ (log # <<>> /\ Last(log) = "ERROR: Error generating bar chart") =>
         csv_file.written /\ ~png_file.written
    /\ csv_file.written =>
         /\ Len(csv_file.content) = Len(summary.rows) + 1
         /\ \A k \in DOMAIN summary.rows :
              csv_file.content[k + 1] =
                <<summary.rows[k].phylum, summary.rows[k].total_species_count,
                  summary.rows[k].average_species_count>>
    /\ png_file.written =>
         /\ Len(png_file.content) = Len(summary.rows)
         /\ \A k \in DOMAIN summary.rows :
              /\ png_file.content[k].label = summary.rows[k].phylum
              /\ png_file.content[k].height = summary.rows[k].total_species_count

C9_Witness ==
    /\ log # <<>>
    /\ Last(log) = "ERROR: Error saving results to file"
    /\ summary.rows # <<>>
    /\ pc = "exit"

\* What read_data makes of row r when r is the only row of the table.
Alone(r) ==
    LET got == read_data(TableInput("path", RequiredColumns, <<r>>)).df.rows
    IN  [j \in DOMAIN got |-> [got[j] EXCEPT !.index = 0]]

RECURSIVE EachAlone(_)
EachAlone(rows) ==
    IF rows = <<>> THEN <<>>
    ELSE EachAlone(SubSeq(rows, 1, Len(rows) - 1)) \o Alone(rows[Len(rows)])

\* C10: cleaning treats rows independently and keeps their order: the cleaned
\* table is, row for row and in input order, what read_data makes of each row
\* on its own.
C10_RowsIndependent ==
    (LoadedTable /\ data.returned) =>
        [j \in DOMAIN data.rows |-> [data.rows[j] EXCEPT !.index = 0]]
            = EachAlone(input.rows)

====
